---- MODULE Spec2Model ----
(***************************************************************************)
(* Model of twiki_wg/ssawg_trending_scraper.py: the page registry, the     *)
(* URL resolution of each page kind (GenericPage, ReportsPage,             *)
(* PerigeePage), the page request, the extraction of parse_page and the    *)
(* harvest loop of main(); and of twiki_wg/make_diff.py.                   *)
(*                                                                         *)
(* Strings that the code builds with f-strings are sequences of string     *)
(* tokens (the empty string is the empty sequence), numbers are rendered   *)
(* digit by digit.  Times are whole days; CxoTime(...).secs is the number  *)
(* of seconds since 1998-01-01.                                            *)
(***************************************************************************)
EXTENDS Integers, Sequences, FiniteSets, TLC

VARIABLES
    now,            \* the clock reading CxoTime.now() of this run
    idx,            \* position of main's for loop in page_classes
    pc,             \* statement main is at for the page being processed
    qi,             \* position of ReportsPage.get_url's loop in range(4, 0, -1)
    url,            \* trend_page.url
    current_url,    \* trend_page.current_url
    probes,         \* requests issued by get_url of the page being processed
    page_request,   \* response obtained by get_page_request
    stage,          \* where the page being processed raised: the statement of
                    \* main and, in get_html_chunks, the selector
    html_chunks,    \* main's consolidated fragment list
    raised,         \* positions of the pages whose processing raised
    out_html,       \* the document written by main
    netrc,          \* whether ~/.netrc holds the periscope_drift_page entry
    doc,            \* page_request.text: the markup of the fetched page
    soup,           \* trend_page.soup, with the rewritten anchors
    current_quarter_acq_images,
                    \* trend_page.current_quarter_acq_images
    images,         \* trend_page.images
    tables,         \* trend_page.tables
    tb,             \* traceback.format_exc() of the exception main caught
    fragment,       \* the failure fragment main builds from it
    registry,       \* BasePage.page_classes while classes are being defined
    defined,        \* number of class statements of the module executed
    argv,           \* command line of twiki_make_diff
    wiki,           \* number of revisions of each TWiki page
    requests,       \* URLs make_diff asked OCCweb for
    text_tw,        \* make_diff: raw TWiki text of the two pages
    bytes_md,       \* make_diff: the two texts converted by pandoc
    gists,          \* the gists of the GitHub account, each with its revisions
    gist_url,       \* make_diff: URL printed by gh gist create
    index_file,     \* make_wg_index: the meeting divs of the index file
    agendas_index,  \* make_wg_index: the meeting divs of agendas_index
    meeting_list,   \* the link texts of the wiki's list of meetings
    opt,            \* make_wg_index: the options --start and --stop
    before,         \* the index file as main read it in this run
    new_links,      \* make_wg_index: new_links
    ii,             \* make_wg_index: position of the loop over new_links
    prev,           \* the previous completed run: its options and index
    meeting_html,   \* a meeting page as get_twiki_page parsed it
    meeting_page,   \* the meeting page, less the tags moved out of it
    meeting_agenda_ul,
                    \* what get_meeting_agenda_ul returned
    agenda_div,     \* the div main builds for the meeting
    other_nbs_div   \* what get_other_notebooks returned

parse_vars == <<doc, soup, images, current_quarter_acq_images, tables>>
escape_vars == <<tb, fragment>>
registry_vars == <<registry, defined>>
diff_vars == <<argv, wiki, requests, text_tw, bytes_md, gists, gist_url>>
index_vars == <<index_file, agendas_index, meeting_list, opt, before, new_links, ii, prev>>
agenda_vars == <<meeting_html, meeting_page, meeting_agenda_ul, agenda_div, other_nbs_div>>
wg_vars == <<index_vars, agenda_vars>>
other_vars == <<parse_vars, escape_vars, registry_vars, diff_vars, wg_vars>>

vars == <<now, idx, pc, qi, url, current_url, probes, page_request, stage,
          html_chunks, raised, out_html, netrc, other_vars>>

\* The variables of the parts that a specification leaves alone.
ParseIdle ==
    /\ doc = <<>> /\ soup = <<>> /\ images = <<>>
    /\ current_quarter_acq_images = <<>> /\ tables = <<>>
EscapeIdle == tb = <<>> /\ fragment = <<>>
RegistryIdle == registry = <<>> /\ defined = 0
IndexIdle ==
    /\ index_file = <<>> /\ agendas_index = <<>> /\ meeting_list = <<>>
    /\ opt = <<>> /\ before = <<>> /\ new_links = <<>> /\ ii = 0 /\ prev = <<>>
AgendaIdle ==
    /\ meeting_html = <<>> /\ meeting_page = <<>> /\ meeting_agenda_ul = <<>>
    /\ agenda_div = <<>> /\ other_nbs_div = <<>>
WgIdle == IndexIdle /\ AgendaIdle
DiffIdle ==
    /\ argv = <<>> /\ wiki = <<>> /\ requests = <<>> /\ text_tw = <<>>
    /\ bytes_md = <<>> /\ gists = <<>> /\ gist_url = <<>>

\* ------------------------------------------------------------------ bounds

\* Number of registry entries the harvest loop is run over.
MaxPages == 6

\* Number of calendar years the clock ranges over in SpecGetUrl.
NumYears == 2

\* Number of top-level elements of a fetched document in SpecParse.
MaxElems == 2

\* Number of characters of a traceback in SpecEscape.
MaxTbLen == 3

\* Number of times twiki_test's main defines MyPage in SpecRegistry.
MaxSubclasses == 2

\* Number of revisions of a TWiki page in SpecDiff.
MaxRevs == 2

\* Number of meeting dates, and of links in the wiki's list of meetings,
\* in SpecIndex.
MaxDates == 3
MaxLinks == 3

\* Number of headers, lists and links of a meeting page in SpecAgenda.
MaxItems == 4

\* ------------------------------------------------------------------ calendar

IsLeap(y) == (y % 4 = 0 /\ y % 100 # 0) \/ y % 400 = 0

DaysInMonth(y, m) ==
    IF m = 2 THEN (IF IsLeap(y) THEN 29 ELSE 28)
    ELSE IF m \in {4, 6, 9, 11} THEN 30 ELSE 31

DaysInYear(y) == IF IsLeap(y) THEN 366 ELSE 365

Date(y, m, d) == [year |-> y, month |-> m, day |-> d]

RECURSIVE DaysBeforeYear(_)
DaysBeforeYear(y) ==
    IF y <= 1998 THEN 0 ELSE DaysBeforeYear(y - 1) + DaysInYear(y - 1)

RECURSIVE DaysBeforeMonth(_, _)
DaysBeforeMonth(y, m) ==
    IF m <= 1 THEN 0 ELSE DaysBeforeMonth(y, m - 1) + DaysInMonth(y, m - 1)

\* CxoTime(t).secs, for a time t at 00:00:00 of a day
Secs(t) ==
    (DaysBeforeYear(t.year) + DaysBeforeMonth(t.year, t.month) + (t.day - 1)) * 86400

PrevDay(t) ==
    IF t.day > 1 THEN Date(t.year, t.month, t.day - 1)
    ELSE IF t.month > 1
         THEN Date(t.year, t.month - 1, DaysInMonth(t.year, t.month - 1))
         ELSE Date(t.year - 1, 12, 31)

\* t - n * u.day
RECURSIVE MinusDays(_, _)
MinusDays(t, n) == IF n = 0 THEN t ELSE MinusDays(PrevDay(t), n - 1)

Years == 2024 .. (2024 + NumYears - 1)

AllDates ==
    { Date(y, m, d) : y \in Years, m \in 1..12, d \in 1..31 } \
    { t \in [year : Years, month : 1..12, day : 1..31] :
          t.day > DaysInMonth(t.year, t.month) }

\* Clock readings of the harvest runs: for each quarter of 2024 a day before
\* and a day after the middle of the period the quarter's page publishes.
NowDates ==
    { Date(2024, 1, 5),  Date(2024, 3, 20), Date(2024, 4, 10), Date(2024, 6, 1),
      Date(2024, 7, 15), Date(2024, 9, 20), Date(2024, 10, 2), Date(2024, 12, 20) }

\* ------------------------------------------------------------------ text

DigitChar == <<"0", "1", "2", "3", "4", "5", "6", "7", "8", "9">>

\* f"{n}" for a non-negative integer
RECURSIVE Str(_)
Str(n) ==
    IF n < 10 THEN <<DigitChar[n + 1]>>
    ELSE Str(n \div 10) \o <<DigitChar[(n % 10) + 1]>>

\* f"{n:02}"
Fmt02(n) == IF Len(Str(n)) < 2 THEN <<"0">> \o Str(n) ELSE Str(n)

URL_ASPECT == "https://cxc.cfa.harvard.edu/mta/ASPECT"

\* ------------------------------------------------------------------ registry

Lit(s) == [attr |-> "literal", key |-> s, sib |-> 0]
UrlHtml == [attr |-> "url_html", key |-> "", sib |-> 0]
El(a, k) == [attr |-> a, key |-> k, sib |-> 0]
Sib(a, k, n) == [attr |-> a, key |-> k, sib |-> n]
Img(k) == [attr |-> "images", key |-> k, sib |-> 0]

AcqStatReportsPage ==
    [cls |-> "AcqStatReportsPage", base |-> "ReportsPage",
     page |-> "acq_stat_reports", auth |-> FALSE,
     chunks |-> << El("headers2", "0"), UrlHtml, El("headers3", "0"),
                   El("tables", "1"),
                   El("current_quarter_acq_images", "id_acq_stars.png"),
                   Img("delta_mag_scatter.png"), El("tables", "4"), Lit("<hr>") >>]

GuiStatReportsPage ==
    [cls |-> "GuiStatReportsPage", base |-> "ReportsPage",
     page |-> "gui_stat_reports", auth |-> FALSE,
     chunks |-> << El("headers2", "0"), UrlHtml, El("headers3", "0"),
                   El("tables", "1"), Lit("<table><tbody><tr><td>"),
                   Img("delta_mag_vs_mag.png"), Lit("</td><td>"),
                   Img("delta_mag_vs_color.png"), Lit("</td></tr><tr><td>"),
                   Img("frac_not_track_vs_mag.png"), Lit("</td><td>"),
                   Img("frac_bad_obc_status.png"),
                   Lit("</td></tr></tbody></table>"), El("tables", "4"),
                   Lit("<hr>") >>]

PeriscopePage ==
    [cls |-> "PeriscopePage", base |-> "ReportsPage",
     page |-> "periscope_drift_reports", auth |-> TRUE,
     chunks |-> << El("headers2", "0"), UrlHtml, El("headers3", "0"),
                   El("tables", "1"), El("headers3", "1"),
                   Img("drift_histogram.png"), El("headers3", "2"),
                   Lit("<table><tbody><tr><td>"),
                   Img("large_drift_ang_y_corr.png"), Lit("</td><td>"),
                   Img("large_drift_ang_z_corr.png"),
                   Lit("</td></tr></tbody></table>"), Lit("<hr>") >>]

PerigeePage ==
    [cls |-> "PerigeePage", base |-> "PerigeePage",
     page |-> "perigee_health_plots", auth |-> FALSE,
     chunks |-> << El("headers3", "0"), UrlHtml, El("paragraphs", "0"),
                   El("tables", "1"), Lit("<hr>") >>]

WrongBoxAcqAnomPage ==
    [cls |-> "WrongBoxAcqAnomPage", base |-> "GenericPage",
     page |-> "wrong_box_anom", auth |-> FALSE,
     chunks |-> << El("headers2", "0"), UrlHtml, Img("wrong_box.png"),
                   El("headers4", "0"), El("tables", "1"), Lit("<hr>") >>]

KalmanWatch3Page ==
    [cls |-> "KalmanWatch3Page", base |-> "GenericPage",
     page |-> "kalman_watch3", auth |-> FALSE,
     chunks |-> << El("headers2", "0"), UrlHtml,
                   Img("mon_win_kalman_drops_-45d_-1d.png"),
                   El("headers3", "0"), El("paragraphs", "1"), El("divs", "0"),
                   El("tables", "1"), Lit("<hr>") >>]

ObcRateNoisePage ==
    [cls |-> "ObcRateNoisePage", base |-> "GenericPage",
     page |-> "obc_rate_noise/trending", auth |-> FALSE,
     chunks |-> << El("headers2", "0"), UrlHtml, Lit("<br>"),
                   Sib("headers2", "0", 1), Lit("<br><br>"),
                   Img("pitch_time_recent.png"), Img("yaw_time_recent.png"),
                   Img("roll_time_recent.png"), Img("pitch_time_longterm.png"),
                   Img("yaw_time_longterm.png"), Img("roll_time_longterm.png"),
                   Lit("<hr>") >>]

FidDriftPage ==
    [cls |-> "FidDriftPage", base |-> "GenericPage",
     page |-> "fid_drift_mon3", auth |-> FALSE,
     chunks |-> << El("headers2", "0"), UrlHtml, El("headers4", "0"),
                   Sib("headers4", "0", 1), Lit("<br>"),
                   Img("starcheck_telem.png"), Img("drift_acis_s.png"),
                   Lit("<hr>") >>]

AimpointMonPage ==
    [cls |-> "AimpointMonPage", base |-> "GenericPage",
     page |-> "aimpoint_mon3", auth |-> FALSE,
     chunks |-> << El("headers2", "0"), UrlHtml, El("headers3", "1"),
                   Sib("headers3", "1", 1), El("tts", "0"), Sib("tts", "0", 1),
                   Img("observed_aimpoints_dx.png"),
                   Img("observed_aimpoints_dy.png"), El("headers3", "2"),
                   Sib("headers3", "2", 1), El("ems", "1"), Sib("ems", "1", 1),
                   Sib("ems", "1", 2), Sib("ems", "1", 3),
                   Img("intra_obs_dy_dz.png"), Lit("<hr>") >>]

CelmonPage ==
    [cls |-> "CelmonPage", base |-> "GenericPage",
     page |-> "celmon", auth |-> FALSE,
     chunks |-> << Lit("<h2>Absolute astrometric accuracy</h2>"), UrlHtml,
                   El("headers4", "1"), El("paragraphs", "1"),
                   El("paragraphs", "5"), Img("offsets-ACIS-S-history.png"),
                   Img("offsets-ACIS-I-history.png"),
                   Img("offsets-HRC-S-history.png"),
                   Img("offsets-HRC-I-history.png"), Lit("<hr>") >>]

VvRmsPage ==
    [cls |-> "VvRmsPage", base |-> "GenericPage",
     page |-> "vv_rms", auth |-> FALSE,
     chunks |-> << El("headers2", "0"), El("headers3", "0"), UrlHtml,
                   Lit("<br><br><table><tbody><tr><td>"), Img("hist2d_fig.png"),
                   Lit("</td><td>"), Img("hist2d_fig_n100.png"),
                   Lit("</td></tr></tbody></table>"), Lit("<hr>") >>]

AttitudeErrorMonPage ==
    [cls |-> "AttitudeErrorMonPage", base |-> "GenericPage",
     page |-> "attitude_error_mon", auth |-> FALSE,
     chunks |-> << El("headers2", "0"), Sib("headers2", "0", 1),
                   Lit("<br><br>"), UrlHtml, El("headers3", "0"),
                   El("tables", "1"), El("headers3", "1"), El("paragraphs", "1"),
                   El("tables", "2"), El("headers2", "1"), El("tables", "3"),
                   Lit("<br></br><br></br>"), Lit("<hr>") >>]

FssCheck3Page ==
    [cls |-> "FssCheck3Page", base |-> "GenericPage",
     page |-> "fss_check3", auth |-> FALSE,
     chunks |-> << El("headers2", "0"), UrlHtml, Lit("<br>"),
                   El("headers3", "0"), El("tables", "1"), Lit("<br>"),
                   El("headers4", "1"), El("tables", "2"), El("headers4", "2"),
                   El("tables", "3"), Lit("<hr>") >>]

\* BasePage.page_classes once the module is loaded: the classes that set
\* `page`, in definition order.
page_classes ==
    << AcqStatReportsPage, GuiStatReportsPage, PeriscopePage, PerigeePage,
       WrongBoxAcqAnomPage, KalmanWatch3Page, ObcRateNoisePage, FidDriftPage,
       AimpointMonPage, CelmonPage, VvRmsPage, AttitudeErrorMonPage,
       FssCheck3Page >>

\* The harvest loop runs over the first NPages entries of the registry.
NPages == IF MaxPages < Len(page_classes) THEN MaxPages ELSE Len(page_classes)

\* The registry entry main is processing (trend_page's class).
Page == page_classes[idx]

\* ------------------------------------------------------------------ network

\* Status codes a server answers with: OK, a 2xx answer other than 200
\* (203 Non-Authoritative Information, which carries the page), Not Found.
StatusCodes == {200, 203, 404}

\* What requests.get yields: an exception (timeout, DNS, refused connection)
\* or a response with a status code.  `table` says whether the body holds
\* the period table (table_id 2 with TSTART and TSTOP) that Table.read needs.
ConnectionError == [exc |-> TRUE, status_code |-> 0, table |-> "none"]

Responses ==
    {ConnectionError}
    \cup [exc : {FALSE}, status_code : {200, 203}, table : {"period", "unreadable"}]
    \cup [exc : {FALSE}, status_code : {404}, table : {"unreadable"}]

\* No request issued yet.
NoResponse == [exc |-> FALSE, status_code |-> 0, table |-> "none"]

\* ------------------------------------------------------------------ get_url

\* GenericPage.get_url returning the page URL for the current period as well.
GenericPage_get_url_same(p) ==
    << <<URL_ASPECT, "/", p.page, "/">>, <<URL_ASPECT, "/", p.page, "/">> >>

\* GenericPage.get_url: (url, current_url)
GenericPage_get_url(p) == << <<URL_ASPECT, "/", p.page, "/">>, <<>> >>

\* f"{URL_ASPECT}/{self.page}/{year}/Q{quarter}/"
ReportsUrl(page, year, quarter) ==
    <<URL_ASPECT, "/", page, "/">> \o Str(year) \o <<"/Q">> \o Str(quarter) \o <<"/">>

\* range(3, 0, -1): the loop starting one quarter late.
QuarterRangeFromQ3 == <<3, 2, 1>>

\* range(4, 0, -1)
QuarterRange == <<4, 3, 2, 1>>

\* The period the page of a quarter publishes in its table: TSTART, TSTOP.
TSTART(year, quarter) == Date(year, 3 * quarter - 2, 1)
TSTOP(year, quarter) == Date(year, 3 * quarter, DaysInMonth(year, 3 * quarter))

\* halfway = start_time.secs + ((stop_time.secs - start_time.secs) / 2)
Halfway(start_time, stop_time) ==
    Secs(start_time) + ((Secs(stop_time) - Secs(start_time)) \div 2)

\* page_request.status_code == 200 in ReportsPage.get_url
ProbeOk(status_code) == status_code = 200

\* ReportsPage.get_url once a probe of `quarter` was accepted and its table
\* read: (url, current_url)
ReportsPage_return(page, year, quarter, t) ==
    IF Secs(t) > Halfway(TSTART(year, quarter), TSTOP(year, quarter))
    THEN << ReportsUrl(page, year, quarter), ReportsUrl(page, year, quarter) >>
    ELSE IF quarter = 1
         THEN << ReportsUrl(page, year - 1, 4), ReportsUrl(page, year, quarter) >>
         ELSE << ReportsUrl(page, year, quarter - 1), ReportsUrl(page, year, quarter) >>

\* CxoTime.now() - 30 * u.day: a month taken as thirty days.
LastMonth30(t) == MinusDays(t, 30)

\* last_month = CxoTime.now() - 27 * u.day
LastMonth(t) == MinusDays(t, 27)

\* f"{URL_ASPECT}/{self.page}/SUMMARY_DATA/{year}-M{month:02}/"
PerigeeUrl(page, year, month) ==
    <<URL_ASPECT, "/", page, "/SUMMARY_DATA/">> \o Str(year) \o <<"-M">>
        \o Fmt02(month) \o <<"/">>

\* PerigeePage.get_url: (url, current_url)
PerigeePage_get_url(p, t) ==
    IF t.day > 15
    THEN << PerigeeUrl(p.page, t.year, t.month), <<>> >>
    ELSE << PerigeeUrl(p.page, LastMonth(t).year, LastMonth(t).month), <<>> >>

\* ------------------------------------------------------------------ fragments

\* The outcome of requests.get(self.url) with the URL that was requested
\* (page_request.url).
Requested(u, r) ==
    [exc |-> r.exc, status_code |-> r.status_code, table |-> r.table, url |-> u]

\* page_request.status_code != 200 in BasePage.get_page_request
RequestFailed(status_code) == status_code # 200

\* A selector of get_html_chunks that can raise IndexError or KeyError:
\* everything but the literal strings and url_html.
CanRaise(sel) == sel.attr \notin {"literal", "url_html"}

\* The URL a fragment is built with (get_images, get_tables, url_html).
ChunkUrlPrimary(sel) ==
    IF sel.attr \in {"images", "tables", "url_html", "current_quarter_acq_images"}
    THEN url
    ELSE <<>>

\* The URL a selected fragment is built from: self.images, self.tables and
\* self.url_html from self.url, self.current_quarter_acq_images from
\* self.current_url.
ChunkUrl(sel) ==
    IF sel.attr \in {"images", "tables", "url_html"} THEN url
    ELSE IF sel.attr = "current_quarter_acq_images" THEN current_url
    ELSE <<>>

\* The list get_html_chunks returns.
PageChunks(p) ==
    [n \in 1..Len(p.chunks) |->
        [kind |-> "chunk", page |-> p.page, n |-> n, sel |-> p.chunks[n],
         src |-> ChunkUrl(p.chunks[n])]]

\* f"<h2>{trend_page.page}: FAILED PROCESSING</h2>\n<pre>\n{html_traceback}\n</pre>\n"
FailedChunk(p) ==
    [kind |-> "FAILED PROCESSING", page |-> p.page, n |-> 0, sel |-> Lit("traceback"),
     src |-> <<>>]

\* The fragments appended one by one as they are selected, so that those
\* selected before the raising selector stay in the list.
ExtendedEager(p, j) ==
    IF j = 0 THEN html_chunks \o PageChunks(p)
    ELSE html_chunks \o SubSeq(PageChunks(p), 1, j - 1)

\* html_chunks after html_chunks.extend(trend_page.get_html_chunks()), where
\* selector j of the list raises (j = 0: none does): the list is built in
\* full before extend is called.
Extended(p, j) == IF j = 0 THEN html_chunks \o PageChunks(p) ELSE html_chunks

\* Where an exception was raised: the statement, and the position of the
\* selector for one raised by get_html_chunks.
At(stmt, n) == [at |-> stmt, sel |-> n]
NoStage == At("", 0)

\* except (IndexError, KeyError): only the errors of the selectors are
\* caught, any other exception leaves main.
ExceptHandlerNarrow(chunks, stg) ==
    IF stg.at = "get_html_chunks"
    THEN /\ html_chunks' = Append(chunks, FailedChunk(Page))
         /\ pc' = "for"
    ELSE /\ html_chunks' = chunks
         /\ pc' = "aborted"

\* A handler that tries the page again from get_url instead of giving it up.
ExceptHandlerRetry(chunks, stg) ==
    /\ html_chunks' = chunks
    /\ pc' = "get_url"

\* except Exception: one diagnostic fragment, and the loop goes on.
ExceptHandler(chunks, stg) ==
    /\ html_chunks' = Append(chunks, FailedChunk(Page))
    /\ pc' = "for"

\* An exception raised at `stg` of the page being processed.
Raise(chunks, stg) ==
    /\ raised' = raised \cup {idx}
    /\ stage' = stg
    /\ ExceptHandler(chunks, stg)

\* ------------------------------------------------------------------ main

\* The check of NETRC without the RuntimeError: the module loads whatever
\* ~/.netrc holds.
NetrcUnchecked == pc' = "for"

\* if "periscope_drift_page" not in NETRC: raise RuntimeError(...), run when
\* the module is imported, before main is entered.
NetrcCheck == IF netrc THEN pc' = "for" ELSE pc' = "import_error"

ImportModule ==
    /\ pc = "import"
    /\ NetrcCheck
    /\ UNCHANGED <<now, idx, qi, url, current_url, probes, page_request, stage,
                   html_chunks, raised, out_html, netrc, other_vars>>

\* The timeout argument of requests.get: none is given.
RequestTimeout == "None"

\* A server that never answers: without a timeout requests.get does not
\* return and main waits in the statement it is at.
Hang ==
    /\ pc \in {"get_url", "get_page_request"}
    /\ pc = "get_url" => (Page.base = "ReportsPage" /\ qi <= Len(QuarterRange))
    /\ RequestTimeout = "None"
    /\ pc' = IF pc = "get_url" THEN "get_url: blocked"
             ELSE "get_page_request: blocked"
    /\ UNCHANGED <<now, idx, qi, url, current_url, probes, page_request, stage,
                   html_chunks, raised, out_html, netrc, other_vars>>

\* for page_class in BasePage.page_classes: trend_page = page_class()
NextPage ==
    /\ pc = "for"
    /\ idx < NPages
    /\ idx' = idx + 1
    /\ pc' = "get_url"
    /\ qi' = 1
    /\ url' = <<>>
    /\ current_url' = <<>>
    /\ probes' = <<>>
    /\ page_request' = NoResponse
    /\ stage' = NoStage
    /\ UNCHANGED <<netrc, other_vars>>
    /\ UNCHANGED <<now, html_chunks, raised, out_html>>

GenericGetUrl ==
    /\ pc = "get_url"
    /\ Page.base = "GenericPage"
    /\ url' = GenericPage_get_url(Page)[1]
    /\ current_url' = GenericPage_get_url(Page)[2]
    /\ pc' = "get_page_request"
    /\ UNCHANGED <<netrc, other_vars>>
    /\ UNCHANGED <<now, idx, qi, probes, page_request, stage, html_chunks, raised,
                   out_html>>

PerigeeGetUrl ==
    /\ pc = "get_url"
    /\ Page.base = "PerigeePage"
    /\ url' = PerigeePage_get_url(Page, now)[1]
    /\ current_url' = PerigeePage_get_url(Page, now)[2]
    /\ pc' = "get_page_request"
    /\ UNCHANGED <<netrc, other_vars>>
    /\ UNCHANGED <<now, idx, qi, probes, page_request, stage, html_chunks, raised,
                   out_html>>

\* One pass of the loop of ReportsPage.get_url: the request for a quarter and
\* what the answer leads to.
Probe ==
    /\ pc = "get_url"
    /\ Page.base = "ReportsPage"
    /\ qi <= Len(QuarterRange)
    /\ \E r \in Responses :
        LET quarter == QuarterRange[qi]
            year == now.year
            ret == ReportsPage_return(Page.page, year, quarter, now)
        IN  /\ probes' = Append(probes,
                    [url |-> ReportsUrl(Page.page, year, quarter), year |-> year,
                     quarter |-> quarter, auth |-> Page.auth, response |-> r])
            /\ IF r.exc
               THEN /\ Raise(html_chunks, At("get_url", 0))
                    /\ UNCHANGED <<qi, url, current_url>>
               ELSE IF ProbeOk(r.status_code)
               THEN IF r.table = "period"
                    THEN /\ url' = ret[1]
                         /\ current_url' = ret[2]
                         /\ pc' = "get_page_request"
                         /\ UNCHANGED <<qi, stage, html_chunks, raised>>
                    ELSE /\ Raise(html_chunks, At("get_url", 0))
                         /\ UNCHANGED <<qi, url, current_url>>
               ELSE IF qi = Len(QuarterRange)
               THEN /\ Raise(html_chunks, At("get_url", 0))
                    /\ qi' = qi + 1
                    /\ UNCHANGED <<url, current_url>>
               ELSE /\ qi' = qi + 1
                    /\ UNCHANGED <<pc, url, current_url, stage, html_chunks, raised>>
    /\ UNCHANGED <<netrc, other_vars>>
    /\ UNCHANGED <<now, idx, page_request, out_html>>

\* BasePage.get_page_request
GetPageRequest ==
    /\ pc = "get_page_request"
    /\ \E r \in Responses :
        /\ page_request' = Requested(url, r)
        /\ IF r.exc \/ RequestFailed(r.status_code)
           THEN Raise(html_chunks, At("get_page_request", 0))
           ELSE /\ pc' = "parse_page"
                /\ UNCHANGED <<stage, html_chunks, raised>>
    /\ UNCHANGED <<netrc, other_vars>>
    /\ UNCHANGED <<now, idx, qi, url, current_url, probes, out_html>>

\* The rest of BasePage.parse_page: the soup, the rewriting of the anchors
\* and the element collections; an anchor without href or an img without
\* src raises KeyError.
ParsePage ==
    /\ pc = "parse_page"
    /\ \E ok \in BOOLEAN :
        IF ok
        THEN /\ pc' = "get_html_chunks"
             /\ UNCHANGED <<stage, html_chunks, raised>>
        ELSE Raise(html_chunks, At("parse_page", 0))
    /\ UNCHANGED <<netrc, other_vars>>
    /\ UNCHANGED <<now, idx, qi, url, current_url, probes, page_request, out_html>>

\* html_chunks.extend(trend_page.get_html_chunks())
GetHtmlChunks ==
    /\ pc = "get_html_chunks"
    /\ \E j \in 0..Len(Page.chunks) :
        /\ (j # 0 => CanRaise(Page.chunks[j]))
        /\ IF j = 0
           THEN /\ html_chunks' = Extended(Page, j)
                /\ pc' = "for"
                /\ UNCHANGED <<stage, raised>>
           ELSE Raise(Extended(Page, j), At("get_html_chunks", j))
    /\ UNCHANGED <<netrc, other_vars>>
    /\ UNCHANGED <<now, idx, qi, url, current_url, probes, page_request, out_html>>

\* template.render(html_chunks=...) and the write of ssawg_trending.html
Render ==
    /\ pc = "for"
    /\ idx = NPages
    /\ out_html' = html_chunks
    /\ pc' = "done"
    /\ UNCHANGED <<netrc, other_vars>>
    /\ UNCHANGED <<now, idx, qi, url, current_url, probes, page_request, stage,
                   html_chunks, raised>>

Init ==
    /\ now \in NowDates
    /\ netrc \in BOOLEAN
    /\ ParseIdle /\ EscapeIdle /\ RegistryIdle /\ DiffIdle /\ WgIdle
    /\ idx = 0
    /\ pc = "import"
    /\ qi = 1
    /\ url = <<>>
    /\ current_url = <<>>
    /\ probes = <<>>
    /\ page_request = NoResponse
    /\ stage = NoStage
    /\ html_chunks = <<>>
    /\ raised = {}
    /\ out_html = <<>>

Next ==
    \/ ImportModule
    \/ Hang
    \/ NextPage
    \/ GenericGetUrl
    \/ PerigeeGetUrl
    \/ Probe
    \/ GetPageRequest
    \/ ParsePage
    \/ GetHtmlChunks
    \/ Render

Spec == Init /\ [][Next]_vars

\* ------------------------------------------------------------------
\* get_url of the page kinds that resolve without the network, applied to
\* every page kind of the registry and every calendar date.

InitGetUrl ==
    /\ now \in AllDates
    /\ netrc = TRUE
    /\ ParseIdle /\ EscapeIdle /\ RegistryIdle /\ DiffIdle /\ WgIdle
    /\ idx \in { i \in 1..Len(page_classes) : page_classes[i].base # "ReportsPage" }
    /\ pc = "get_url"
    /\ qi = 1
    /\ url = <<>>
    /\ current_url = <<>>
    /\ probes = <<>>
    /\ page_request = NoResponse
    /\ stage = NoStage
    /\ html_chunks = <<>>
    /\ raised = {}
    /\ out_html = <<>>

NextGetUrl == GenericGetUrl \/ PerigeeGetUrl

SpecGetUrl == InitGetUrl /\ [][NextGetUrl]_vars

\* ------------------------------------------------------------------
\* parse_page on a document

StartsWith(s, prefix) ==
    Len(s) >= Len(prefix) /\ SubSeq(s, 1, Len(prefix)) = prefix

\* str.endswith
EndsWith(s, suffix) ==
    Len(s) >= Len(suffix) /\ SubSeq(s, Len(s) - Len(suffix) + 1, Len(s)) = suffix

\* An element of the parsed document: an anchor or an image with its
\* attribute (href, src; `has` says whether the tag carries it), or a
\* container with the elements nested in it.
Leaf(tag, has, val) == [tag |-> tag, has |-> has, val |-> val, kids |-> <<>>]
Container(tag, kids) == [tag |-> tag, has |-> FALSE, val |-> <<>>, kids |-> kids]

\* href and src values found in the pages: relative names and a link to
\* another site.
Hrefs == { <<"x", ".", "h", "t", "m", "l">>, <<"https://", "h", "/", "x">> }
Srcs ==
    { <<"a", ".", "p", "n", "g">>, <<"a", ".", "g", "i", "f">>,
      <<"a", "g", "i", "f">>, <<"a", ".", "j", "p", "g">>,
      <<"a", ".", "P", "N", "G">>,
      <<"https://", "h", "/", "a", ".", "p", "n", "g">> }

Leaves ==
    {Leaf("a", FALSE, <<>>), Leaf("img", FALSE, <<>>)}
    \cup {Leaf("a", TRUE, h) : h \in Hrefs}
    \cup {Leaf("img", TRUE, v) : v \in Srcs}

Elements ==
    Leaves \cup {Container(t, k) : t \in {"div", "table"},
                                   k \in {<<>>} \cup {<<l>> : l \in Leaves}}

\* BeautifulSoup(self.url_text, "lxml"): the documents of up to MaxElems
\* top-level elements.
Documents == UNION {[1..n -> Elements] : n \in 0..MaxElems}

\* The elements of a document in document order.
RECURSIVE Flatten(_)
Flatten(d) ==
    IF d = <<>> THEN <<>>
    ELSE <<Head(d)>> \o Head(d).kids \o Flatten(Tail(d))

\* soup.find_all(element)
find_all(d, element) == SelectSeq(Flatten(d), LAMBDA e : e.tag = element)

\* A rewriting that does not exempt any page.
RewritesAnchorsAlways(p) == TRUE

\* if self.page != "celmon":
RewritesAnchors(p) == p.page # "celmon"

\* local_link["href"] = self.url + temp
RewriteLink(e, u) == IF e.tag = "a" THEN [e EXCEPT !.val = u \o @] ELSE e

\* for local_link in self.soup.find_all("a"): the soup after the loop.
RewriteLinks(d, u) ==
    [i \in DOMAIN d |->
        [RewriteLink(d[i], u) EXCEPT
            !.kids = [j \in DOMAIN d[i].kids |-> RewriteLink(d[i].kids[j], u)]]]

\* local_link["href"] or img["src"] of a tag without the attribute.
KeyError(d, element) == \E i \in DOMAIN find_all(d, element) : ~find_all(d, element)[i].has

\* f'<img src = "{url}{img["src"]}" style="max-width:800px">'
ImgFragment(u, src) ==
    <<"<img src = \"">> \o u \o src \o <<"\" style=\"max-width:800px\">">>

\* img["src"].endswith(".png") or img["src"].endswith("gif")
IsImage(src) == EndsWith(src, <<".", "p", "n", "g">>) \/ EndsWith(src, <<"g", "i", "f">>)

\* get_images(soup, "img", url): a dict from src to fragment.
get_images(d, u) ==
    [src \in {find_all(d, "img")[i].val : i \in
                 {j \in DOMAIN find_all(d, "img") : IsImage(find_all(d, "img")[j].val)}}
        |-> ImgFragment(u, src)]

\* str(tag) of an anchor or an image.
StrLeaf(e) ==
    IF e.tag = "a"
    THEN (IF e.has THEN <<"<a ", "href=\"">> \o e.val \o <<"\">", "</a>">>
          ELSE <<"<a>", "</a>">>)
    ELSE (IF e.has THEN <<"<img ", "src=\"">> \o e.val \o <<"\"/>">>
          ELSE <<"<img/>">>)

RECURSIVE StrLeaves(_)
StrLeaves(k) == IF k = <<>> THEN <<>> ELSE StrLeaf(Head(k)) \o StrLeaves(Tail(k))

\* str(table)
StrTable(e) == <<"<table>">> \o StrLeaves(e.kids) \o <<"</table>">>

\* re.sub('src="', f'src="{url}/', text)
RECURSIVE ReSubSrc(_, _)
ReSubSrc(text, u) ==
    IF text = <<>> THEN <<>>
    ELSE IF Head(text) = "src=\"" THEN <<"src=\"">> \o u \o <<"/">> \o ReSubSrc(Tail(text), u)
    ELSE <<Head(text)>> \o ReSubSrc(Tail(text), u)

\* get_tables(soup, "table", url)
get_tables(d, u) ==
    [i \in DOMAIN find_all(d, "table") |-> ReSubSrc(StrTable(find_all(d, "table")[i]), u)]

\* The soup when get_elements, get_images and get_tables read it.
Soup(p, d, u) == IF RewritesAnchors(p) THEN RewriteLinks(d, u) ELSE d

\* BasePage.parse_page from BeautifulSoup(...) on, for the document `doc`.
ParseDocument ==
    /\ pc = "parse_page"
    /\ IF \/ (RewritesAnchors(Page) /\ KeyError(doc, "a"))
          \/ KeyError(doc, "img")
       THEN /\ Raise(html_chunks, At("parse_page", 0))
            /\ UNCHANGED parse_vars
       ELSE /\ soup' = Soup(Page, doc, url)
            /\ images' = get_images(soup', url)
            /\ current_quarter_acq_images' =
                  IF Page.page = "acq_stat_reports"
                  THEN get_images(soup', current_url)
                  ELSE <<>>
            /\ tables' = get_tables(soup', url)
            /\ pc' = "get_html_chunks"
            /\ UNCHANGED <<doc, stage, html_chunks, raised>>
    /\ UNCHANGED <<now, idx, qi, url, current_url, probes, page_request, out_html,
                   netrc, escape_vars, registry_vars, diff_vars, wg_vars>>

\* The URLs get_url gave for the page on 2024-01-20, before the midpoint
\* of the quarter.
ResolvedUrl(p) ==
    IF p.base = "ReportsPage"
    THEN <<ReportsUrl(p.page, 2023, 4), ReportsUrl(p.page, 2024, 1)>>
    ELSE IF p.cls = "PerigeePage" THEN PerigeePage_get_url(p, Date(2024, 1, 20))
    ELSE GenericPage_get_url(p)

InitParse ==
    /\ now = Date(2024, 1, 20)
    /\ netrc = TRUE
    /\ EscapeIdle /\ RegistryIdle /\ DiffIdle /\ WgIdle
    /\ idx \in 1..Len(page_classes)
    /\ pc = "parse_page"
    /\ qi = 1
    /\ url = ResolvedUrl(Page)[1]
    /\ current_url = ResolvedUrl(Page)[2]
    /\ probes = <<>>
    /\ page_request = [exc |-> FALSE, status_code |-> 200, table |-> "unreadable"]
    /\ stage = NoStage
    /\ html_chunks = <<>>
    /\ raised = {}
    /\ out_html = <<>>
    /\ doc \in Documents
    /\ soup = <<>>
    /\ images = <<>>
    /\ current_quarter_acq_images = <<>>
    /\ tables = <<>>

NextParse == ParseDocument

SpecParse == InitParse /\ [][NextParse]_vars

\* ------------------------------------------------------------------
\* the failure fragment

\* str.replace(old, new) for a one-character old.
RECURSIVE Replace(_, _, _)
Replace(text, old, new) ==
    IF text = <<>> THEN <<>>
    ELSE IF Head(text) = old THEN new \o Replace(Tail(text), old, new)
    ELSE <<Head(text)>> \o Replace(Tail(text), old, new)

\* The traceback put in the fragment as it is.
no_escape(text) == text

\* html.escape(s): & first, then <, >, " and '.
html_escape(text) ==
    Replace(Replace(Replace(Replace(Replace(text,
        "&", <<"&", "a", "m", "p", ";">>),
        "<", <<"&", "l", "t", ";">>),
        ">", <<"&", "g", "t", ";">>),
        "\"", <<"&", "q", "u", "o", "t", ";">>),
        "'", <<"&", "#", "x", "2", "7", ";">>)

\* f"<h2>{trend_page.page}: FAILED PROCESSING</h2>\n<pre>\n{html_traceback}\n</pre>\n"
FailureFragment(p, traceback) ==
    <<"<h2>", p.page, ": FAILED PROCESSING</h2>\n<pre>\n">>
        \o html_escape(traceback) \o <<"\n</pre>\n">>

\* Characters of traceback.format_exc(): markup of the scraped page quoted
\* in an error message, and text.
TbChars == {"&", "<", ">", "\"", "'", "a"}
Tracebacks == UNION {[1..n -> TbChars] : n \in 0..MaxTbLen}

\* parse_page raises and the handler of main formats the traceback `tb`.
FormatFailure ==
    /\ pc = "parse_page"
    /\ Raise(html_chunks, At("parse_page", 0))
    /\ fragment' = FailureFragment(Page, tb)
    /\ UNCHANGED <<now, idx, qi, url, current_url, probes, page_request, out_html,
                   netrc, tb, parse_vars, registry_vars, diff_vars, wg_vars>>

InitEscape ==
    /\ now = Date(2024, 1, 20)
    /\ netrc = TRUE
    /\ ParseIdle /\ RegistryIdle /\ DiffIdle /\ WgIdle
    /\ idx \in 1..NPages
    /\ pc = "parse_page"
    /\ qi = 1
    /\ url = ResolvedUrl(Page)[1]
    /\ current_url = ResolvedUrl(Page)[2]
    /\ probes = <<>>
    /\ page_request = [exc |-> FALSE, status_code |-> 200, table |-> "unreadable"]
    /\ stage = NoStage
    /\ html_chunks = <<>>
    /\ raised = {}
    /\ out_html = <<>>
    /\ tb \in Tracebacks
    /\ fragment = <<>>

NextEscape == FormatFailure

SpecEscape == InitEscape /\ [][NextEscape]_vars

\* ------------------------------------------------------------------
\* the registry

\* page = None of BasePage, inherited by the classes that do not set it.
None == "<None>"

\* The class statements of the module after BasePage, in their order.
ClassStatements ==
    << [cls |-> "GenericPage", base |-> "BasePage", page |-> None, auth |-> FALSE,
        chunks |-> <<>>],
       [cls |-> "ReportsPage", base |-> "BasePage", page |-> None, auth |-> FALSE,
        chunks |-> <<>>] >>
    \o page_classes

\* BasePage.__init_subclass__(cls)
init_subclass(classes, cls) ==
    IF cls.page # None THEN Append(classes, cls) ELSE classes

\* pages = {p.page: p for p in BasePage.page_classes}; pages[key]: the
\* last class registered under the key.
PagesDict(classes, key) ==
    classes[CHOOSE i \in DOMAIN classes :
                /\ classes[i].page = key
                /\ \A j \in DOMAIN classes : classes[j].page = key => j <= i]

\* class MyPage(page_class): get_url overridden, page inherited.
MyPage(page_class) == [page_class EXCEPT !.cls = "MyPage", !.base = page_class.cls]

\* A class statement of the module being executed at import.
DefineClass ==
    /\ defined < Len(ClassStatements)
    /\ defined' = defined + 1
    /\ registry' = init_subclass(registry, ClassStatements[defined + 1])
    /\ UNCHANGED <<now, idx, pc, qi, url, current_url, probes, page_request, stage,
                   html_chunks, raised, out_html, netrc, parse_vars, escape_vars,
                   diff_vars, wg_vars>>

\* main of test_trending_page up to the class statement of MyPage, for the
\* page given on the command line.
DefineMyPage ==
    /\ defined >= Len(ClassStatements)
    /\ defined < Len(ClassStatements) + MaxSubclasses
    /\ \E key \in {registry[i].page : i \in DOMAIN registry} :
          registry' = init_subclass(registry, MyPage(PagesDict(registry, key)))
    /\ defined' = defined + 1
    /\ UNCHANGED <<now, idx, pc, qi, url, current_url, probes, page_request, stage,
                   html_chunks, raised, out_html, netrc, parse_vars, escape_vars,
                   diff_vars, wg_vars>>

InitRegistry ==
    /\ now \in NowDates
    /\ netrc = TRUE
    /\ ParseIdle /\ EscapeIdle /\ DiffIdle /\ WgIdle
    /\ idx = 0
    /\ pc = "import"
    /\ qi = 1
    /\ url = <<>>
    /\ current_url = <<>>
    /\ probes = <<>>
    /\ page_request = NoResponse
    /\ stage = NoStage
    /\ html_chunks = <<>>
    /\ raised = {}
    /\ out_html = <<>>
    /\ registry = <<>>
    /\ defined = 0

NextRegistry == DefineClass \/ DefineMyPage

SpecRegistry == InitRegistry /\ [][NextRegistry]_vars

\* ------------------------------------------------------------------
\* make_diff

\* An option not given on the command line (args.<option> is None).
Absent == <<>>

\* TWiki pages, as the components of their names.
TwikiPages ==
    { <<"Development", "HighIRZoneGuideline092822">>,
      <<"Release", "GuidelineHighIRZone">> }

\* Command lines of twiki_make_diff.
CommandLines ==
    [page1 : TwikiPages \cup {Absent}, page2 : TwikiPages \cup {Absent},
     rev1 : {Absent} \cup {Str(n) : n \in 1..MaxRevs},
     rev2 : {Absent} \cup {Str(n) : n \in 1..MaxRevs}]

\* get_argparser().parse_args(): add_argument("--rev1", default="1"),
\* add_argument("--rev2", default="2").
parse_args(line) ==
    [page1 |-> line.page1, page2 |-> line.page2,
     rev1 |-> IF line.rev1 = Absent THEN Str(1) ELSE line.rev1,
     rev2 |-> IF line.rev2 = Absent THEN Str(2) ELSE line.rev2]

args == parse_args(argv)
page1 == args.page1
\* args.page2 or page1
page2 == IF args.page2 # Absent THEN args.page2 ELSE page1
rev1 == args.rev1
rev2 == args.rev2
\* page1.split("/")[-1] + ".md"
filename == <<page1[Len(page1)], ".md">>

\* get_twiki_page_markdown: the page and the parameters of the URL.
TwikiRequest(page, rev) ==
    [page |-> page,
     params |-> IF rev # Absent THEN << <<"raw=on">>, <<"rev=">> \o rev >>
                ELSE << <<"raw=on">> >>]

\* The revision TWiki serves: the one asked for if the page has it, the
\* latest one otherwise and when no rev parameter is sent.
ServedRev(w, req) ==
    IF Len(req.params) = 2
       /\ \E n \in 1..w[req.page] : req.params[2] = <<"rev=">> \o Str(n)
    THEN CHOOSE n \in 1..w[req.page] : req.params[2] = <<"rev=">> \o Str(n)
    ELSE w[req.page]

\* textarea.get_text() of the raw view.
TwikiText(w, req) == [fmt |-> "twiki", page |-> req.page, rev |-> ServedRev(w, req)]

\* pandoc -f twiki -t gfm
Pandoc(text) == [text EXCEPT !.fmt = "gfm"]

\* A gist of the account that twiki_make_diff did not make.
OtherGist == << [filename |-> <<"notes", ".md">>, content |-> "notes"] >>

\* gh gist create prints the URL of the gist and a newline.
GistCreateOutput(n) == <<"https://gist.github.com/">> \o Str(n) \o <<"\n">>

\* out.decode().strip()
Strip(out) == IF out # <<>> /\ out[Len(out)] = "\n" THEN SubSeq(out, 1, Len(out) - 1) ELSE out

\* The gist gh gist edit finds for a URL.
GistAt(u) == CHOOSE n \in 1..Len(gists) : Strip(GistCreateOutput(n)) = u

\* gh gist create fed with the second markdown.
GistCreateInputSecond(b) == b[2]

\* input=bytes_md[1]
GistCreateInput(b) == b[1]

DiffUnchanged ==
    UNCHANGED <<now, idx, qi, url, current_url, probes, page_request, stage,
                html_chunks, raised, out_html, netrc, parse_vars, escape_vars,
                registry_vars, wg_vars, argv, wiki>>

\* main, lines 111-117.
DiffParseArgs ==
    /\ pc = "parse_args"
    /\ pc' = IF page1 = Absent THEN "failed: page1.split" ELSE "get_twiki_page_markdown 1"
    /\ UNCHANGED <<requests, text_tw, bytes_md, gists, gist_url>>
    /\ DiffUnchanged

\* text_tw[i] = get_twiki_page_markdown(page, rev)
DiffFetch(i, page, rev, next) ==
    /\ requests' = Append(requests, TwikiRequest(page, rev))
    /\ \E ok \in BOOLEAN :
          IF ok
          THEN /\ text_tw' = Append(text_tw, TwikiText(wiki, TwikiRequest(page, rev)))
               /\ pc' = next
          ELSE /\ pc' = "failed: get_twiki_page_markdown"
               /\ UNCHANGED text_tw
    /\ UNCHANGED <<bytes_md, gists, gist_url>>
    /\ DiffUnchanged

DiffFetch1 ==
    /\ pc = "get_twiki_page_markdown 1"
    /\ DiffFetch(1, page1, rev1, "get_twiki_page_markdown 2")

DiffFetch2 ==
    /\ pc = "get_twiki_page_markdown 2"
    /\ DiffFetch(2, page2, rev2, "pandoc")

\* for rev, text in text_tw.items(): bytes_md[rev] = pandoc(text)
DiffConvert ==
    /\ pc = "pandoc"
    /\ \E ok \in BOOLEAN :
          IF ok
          THEN /\ bytes_md' = Append(bytes_md, Pandoc(text_tw[Len(bytes_md) + 1]))
               /\ pc' = IF Len(bytes_md') = Len(text_tw) THEN "gh gist create" ELSE "pandoc"
          ELSE /\ pc' = "failed: pandoc"
               /\ UNCHANGED bytes_md
    /\ UNCHANGED <<requests, text_tw, gists, gist_url>>
    /\ DiffUnchanged

\* gh gist create - --filename filename, and url = out.decode().strip()
DiffGistCreate ==
    /\ pc = "gh gist create"
    /\ \E ok \in BOOLEAN :
          IF ok
          THEN /\ gists' = Append(gists, << [filename |-> filename,
                                            content |-> GistCreateInput(bytes_md)] >>)
               /\ gist_url' = Strip(GistCreateOutput(Len(gists')))
               /\ pc' = "gh gist edit"
          ELSE /\ pc' = "failed: gh gist create"
               /\ UNCHANGED <<gists, gist_url>>
    /\ UNCHANGED <<requests, text_tw, bytes_md>>
    /\ DiffUnchanged

\* gh gist edit url - --filename filename
DiffGistEdit ==
    /\ pc = "gh gist edit"
    /\ \E ok \in BOOLEAN :
          IF ok
          THEN /\ gists' = [gists EXCEPT ![GistAt(gist_url)] =
                               Append(@, [filename |-> filename, content |-> bytes_md[2]])]
               /\ pc' = "done"
          ELSE /\ pc' = "failed: gh gist edit"
               /\ UNCHANGED gists
    /\ UNCHANGED <<requests, text_tw, bytes_md, gist_url>>
    /\ DiffUnchanged

InitDiff ==
    /\ now = Date(2024, 1, 20)
    /\ netrc = TRUE
    /\ ParseIdle /\ EscapeIdle /\ RegistryIdle /\ WgIdle
    /\ idx = 0
    /\ pc = "parse_args"
    /\ qi = 1
    /\ url = <<>>
    /\ current_url = <<>>
    /\ probes = <<>>
    /\ page_request = NoResponse
    /\ stage = NoStage
    /\ html_chunks = <<>>
    /\ raised = {}
    /\ out_html = <<>>
    /\ argv \in CommandLines
    /\ wiki \in [TwikiPages -> 1..MaxRevs]
    /\ requests = <<>>
    /\ text_tw = <<>>
    /\ bytes_md = <<>>
    /\ gists \in {<<>>, <<OtherGist>>}
    /\ gist_url = <<>>

NextDiff ==
    \/ DiffParseArgs
    \/ DiffFetch1
    \/ DiffFetch2
    \/ DiffConvert
    \/ DiffGistCreate
    \/ DiffGistEdit

SpecDiff == InitDiff /\ [][NextDiff]_vars

\* ------------------------------------------------------------------
\* make_wg_index: the index

\* A meeting name is meeting_root followed by a date YYYYxMMxDD; names are
\* compared as strings, which for one root and dates of one width is the
\* order of the dates: meeting k stands for the name with the k-th date.
\* 0 is below every date (--start 2006x01x01), MaxDates + 1 above every
\* date (--stop 9999x01x01).
MeetingLists == UNION {[1..n -> 1..MaxDates] : n \in 0..MaxLinks}
Options == [start : 0..MaxDates, stop : 1..(MaxDates + 1)]

\* A list of meetings from the newest to the oldest.
Descending(index) == \A i, j \in DOMAIN index : i < j => index[i] > index[j]

\* The index files that earlier runs left while the wiki listed each meeting
\* once, the newest first.
IndexFiles == {index \in MeetingLists : Descending(index)}

\* for agenda_div in agenda_divs[:2]: agenda_div.extract()
Extracted(index) == SubSeq(index, 3, Len(index))

\* agendas_index.find("div", id=link.text)
FindDiv(index, meeting) == \E i \in DOMAIN index : index[i] = meeting

\* link.text > opt.meeting_root + opt.start and link.text < opt.meeting_root + opt.stop
InRange(o, meeting) == meeting > o.start /\ meeting < o.stop

\* links, then new_links
Links(list, o) == SelectSeq(list, LAMBDA m : InRange(o, m))
NewLinks(list, o, index) == SelectSeq(Links(list, o), LAMBDA m : ~FindDiv(index, m))

\* The loop walking new_links as they stand in the list.
Forward(links) == links

\* reversed(new_links)
Reversed(links) == [i \in 1..Len(links) |-> links[Len(links) + 1 - i]]

IndexUnchanged ==
    UNCHANGED <<now, idx, qi, url, current_url, probes, page_request, stage,
                html_chunks, raised, out_html, netrc, parse_vars, escape_vars,
                registry_vars, diff_vars, agenda_vars, meeting_list>>

\* main, lines 162-179: the options, the index file read, the first two
\* meeting divs extracted.  A run follows a completed run at most once, with
\* the options of that run.
IndexRead ==
    /\ pc = "main" \/ (pc = "done" /\ prev = <<>>)
    /\ opt' \in (IF pc = "done" THEN {opt} ELSE Options)
    /\ before' = index_file
    /\ agendas_index' = Extracted(index_file)
    /\ prev' = IF pc = "done" THEN [opt |-> opt, index |-> index_file] ELSE <<>>
    /\ new_links' = <<>>
    /\ ii' = 0
    /\ pc' = "get_twiki_page"
    /\ UNCHANGED index_file
    /\ IndexUnchanged

\* main, lines 187-204: the wiki's list of meetings fetched and filtered.
IndexLinks ==
    /\ pc = "get_twiki_page"
    /\ \E ok \in BOOLEAN :
          IF ok
          THEN /\ new_links' = NewLinks(meeting_list, opt, agendas_index)
               /\ pc' = "for new_link"
          ELSE /\ pc' = "failed: get_twiki_page"
               /\ UNCHANGED new_links
    /\ UNCHANGED <<index_file, agendas_index, opt, before, ii, prev>>
    /\ IndexUnchanged

\* main, lines 209-254: one turn of the loop over reversed(new_links).
IndexInsert ==
    /\ pc = "for new_link"
    /\ ii < Len(new_links)
    /\ \E ok \in BOOLEAN :
          IF ok
          THEN /\ agendas_index' = <<Reversed(new_links)[ii + 1]>> \o agendas_index
               /\ index_file' = IF ii % 5 = 0 THEN agendas_index' ELSE index_file
               /\ ii' = ii + 1
               /\ UNCHANGED pc
          ELSE /\ pc' = "failed: get_twiki_page"
               /\ UNCHANGED <<index_file, agendas_index, ii>>
    /\ UNCHANGED <<opt, before, new_links, prev>>
    /\ IndexUnchanged

\* main, lines 256-257
IndexWrite ==
    /\ pc = "for new_link"
    /\ ii = Len(new_links)
    /\ index_file' = agendas_index
    /\ pc' = "done"
    /\ UNCHANGED <<agendas_index, opt, before, new_links, ii, prev>>
    /\ IndexUnchanged

InitIndex ==
    /\ now = Date(2024, 1, 20)
    /\ netrc = TRUE
    /\ ParseIdle /\ EscapeIdle /\ RegistryIdle /\ DiffIdle /\ AgendaIdle
    /\ idx = 0
    /\ pc = "main"
    /\ qi = 1
    /\ url = <<>>
    /\ current_url = <<>>
    /\ probes = <<>>
    /\ page_request = NoResponse
    /\ stage = NoStage
    /\ html_chunks = <<>>
    /\ raised = {}
    /\ out_html = <<>>
    /\ index_file \in IndexFiles
    /\ agendas_index = <<>>
    /\ meeting_list \in MeetingLists
    /\ opt = <<>>
    /\ before = <<>>
    /\ new_links = <<>>
    /\ ii = 0
    /\ prev = <<>>

NextIndex == IndexRead \/ IndexLinks \/ IndexInsert \/ IndexWrite

SpecIndex == InitIndex /\ [][NextIndex]_vars

\* ------------------------------------------------------------------
\* make_wg_index: the agenda of a meeting

\* The texts of the headers of a meeting page, word by word.
HeaderTexts == { <<"Current", "Topics">>, <<"topics">>, <<"Agenda">>, <<"Notes">> }

\* The href of the link of a list: a notebook or a page of the same name.
ListHrefs == { <<"a", ".", "ipynb">>, <<"a", ".", "html">> }

\* The parts of a meeting page in document order: h2 and h3 headers, ul
\* lists with the link in them, and a link to another notebook outside of
\* the lists.
PageItems ==
    [tag : {"h2", "h3"}, text : HeaderTexts, hrefs : {<<>>}]
    \cup [tag : {"ul"}, text : {<<>>}, hrefs : {<<h>> : h \in ListHrefs}]
    \cup [tag : {"a"}, text : {<<>>}, hrefs : { << <<"b", ".", "ipynb">> >> }]

\* get_twiki_page(meeting, ...)
MeetingPages == UNION {[1..n -> PageItems] : n \in 0..MaxItems}

\* Letters compared without their case (re.IGNORECASE).
Lower(word) ==
    CASE word = "Current" -> "current"
      [] word = "Topics" -> "topics"
      [] word = "Agenda" -> "agenda"
      [] OTHER -> word

\* text is None or re.search(text, content_tag.text, re.IGNORECASE)
re_search(label, text) ==
    \/ label = <<>>
    \/ \E i \in 1..(Len(text) - Len(label) + 1) :
          \A j \in 1..Len(label) : Lower(text[i + j - 1]) = Lower(label[j])

\* get_list_after(tag, name, text): the place of the ul in the page, 0 for
\* ValueError.  find_next("ul") is the first ul after the header.
get_list_after(page, name, label) ==
    LET found == {i \in DOMAIN page : page[i].tag = name /\ re_search(label, page[i].text)}
        content_tag == CHOOSE i \in found : \A j \in found : i <= j
        lists == {j \in DOMAIN page : page[j].tag = "ul" /\ j > content_tag}
    IN  IF found = {} THEN 0
        ELSE IF lists = {} THEN 0
        ELSE CHOOSE j \in lists : \A k \in lists : j <= k

\* The labels tried with "Agenda" before the others.
agenda_labels_agenda_first ==
    << <<"Agenda">>, <<"Current", "Topics">>, <<"Topics">>, <<>> >>

\* agenda_labels = [r"Current Topics", r"Topics", r"Agenda", None]
agenda_labels == << <<"Current", "Topics">>, <<"Topics">>, <<"Agenda">>, <<>> >>

\* The calls of get_list_after in get_meeting_agenda_ul, in their order:
\* for agenda_label in agenda_labels: for header in ["h2", "h3"].
Attempts ==
    [k \in 1..(2 * Len(agenda_labels)) |->
        [label |-> agenda_labels[(k + 1) \div 2],
         header |-> IF k % 2 = 1 THEN "h2" ELSE "h3"]]

\* get_meeting_agenda_ul(meeting_page, agenda_labels): 0 for None.
RECURSIVE get_meeting_agenda_ul(_, _)
get_meeting_agenda_ul(page, k) ==
    IF k > Len(Attempts) THEN 0
    ELSE IF get_list_after(page, Attempts[k].header, Attempts[k].label) # 0
    THEN get_list_after(page, Attempts[k].header, Attempts[k].label)
    ELSE get_meeting_agenda_ul(page, k + 1)

\* new_link["href"]: the link of the wiki's list to the meeting page.
MeetingHref == <<"/twiki/bin/view/Aspect/", "StarWorkingGroupMeeting">>

\* The href of every a of a page, in document order.
RECURSIVE Anchors(_)
Anchors(page) == IF page = <<>> THEN <<>> ELSE Head(page).hrefs \o Anchors(Tail(page))

\* The keys of a dict filled from a sequence, in the order of insertion.
RECURSIVE Keys(_)
Keys(hrefs) ==
    IF hrefs = <<>> THEN <<>>
    ELSE LET front == Keys(SubSeq(hrefs, 1, Len(hrefs) - 1))
             last == hrefs[Len(hrefs)]
         IN  IF \E i \in DOMAIN front : front[i] = last THEN front ELSE Append(front, last)

\* tag.get("href", "").endswith(".ipynb")
IsNotebook(href) == EndsWith(href, <<".", "ipynb">>)

\* Every notebook taken, whether the agenda has it or not.
AnyNotebook(href, agenda_nbs) == TRUE

\* if href not in agenda_nbs
NotInAgenda(href, agenda_nbs) == \A i \in DOMAIN agenda_nbs : agenda_nbs[i] # href

\* get_other_notebooks(agenda_div, meeting_page): the div with the links,
\* or None.
get_other_notebooks(div_hrefs, page) ==
    LET agenda_nbs == Keys(SelectSeq(div_hrefs, IsNotebook))
        all_nbs == Keys(SelectSeq(Anchors(page), IsNotebook))
        other_nbs == SelectSeq(all_nbs, LAMBDA h : NotInAgenda(h, agenda_nbs))
    IN  IF other_nbs # <<>> THEN [div |-> TRUE, hrefs |-> other_nbs]
        ELSE [div |-> FALSE, hrefs |-> <<>>]

AgendaUnchanged ==
    UNCHANGED <<now, idx, qi, url, current_url, probes, page_request, stage,
                html_chunks, raised, out_html, netrc, parse_vars, escape_vars,
                registry_vars, diff_vars, index_vars, meeting_html>>

\* main, lines 214-233: the agenda list found and appended to the new
\* div, which takes it out of the meeting page.
AgendaDiv ==
    /\ pc = "get_meeting_agenda_ul"
    /\ meeting_agenda_ul' = get_meeting_agenda_ul(meeting_page, 1)
    /\ agenda_div' =
          IF meeting_agenda_ul' = 0
          THEN [hrefs |-> <<MeetingHref>>, agenda |-> <<"No agenda">>, other |-> <<>>]
          ELSE [hrefs |-> <<MeetingHref>> \o meeting_page[meeting_agenda_ul'].hrefs,
                agenda |-> <<meeting_page[meeting_agenda_ul']>>, other |-> <<>>]
    /\ meeting_page' =
          IF meeting_agenda_ul' = 0 THEN meeting_page
          ELSE SubSeq(meeting_page, 1, meeting_agenda_ul' - 1)
                  \o SubSeq(meeting_page, meeting_agenda_ul' + 1, Len(meeting_page))
    /\ pc' = "get_other_notebooks"
    /\ UNCHANGED other_nbs_div
    /\ AgendaUnchanged

\* main, lines 236-238.  li.append(tag) takes each link returned out of the
\* meeting page: the last one with its href, which is the one the dict holds.
OtherNotebooks ==
    /\ pc = "get_other_notebooks"
    /\ other_nbs_div' = get_other_notebooks(agenda_div.hrefs, meeting_page)
    /\ agenda_div' = [agenda_div EXCEPT !.other = other_nbs_div'.hrefs]
    /\ meeting_page' =
          LET taken(i) ==
                  /\ meeting_page[i].hrefs # <<>>
                  /\ \E k \in DOMAIN other_nbs_div'.hrefs :
                        other_nbs_div'.hrefs[k] = meeting_page[i].hrefs[1]
                  /\ \A j \in DOMAIN meeting_page :
                        j > i => meeting_page[j].hrefs # meeting_page[i].hrefs
              left == [i \in DOMAIN meeting_page |->
                          IF taken(i) THEN [meeting_page[i] EXCEPT !.hrefs = <<>>]
                          ELSE meeting_page[i]]
          IN  SelectSeq(left, LAMBDA item : item.tag # "a" \/ item.hrefs # <<>>)
    /\ pc' = "for tag in agenda_div"
    /\ UNCHANGED meeting_agenda_ul
    /\ AgendaUnchanged

InitAgenda ==
    /\ now = Date(2024, 1, 20)
    /\ netrc = TRUE
    /\ ParseIdle /\ EscapeIdle /\ RegistryIdle /\ DiffIdle /\ IndexIdle
    /\ idx = 0
    /\ pc = "get_meeting_agenda_ul"
    /\ qi = 1
    /\ url = <<>>
    /\ current_url = <<>>
    /\ probes = <<>>
    /\ page_request = NoResponse
    /\ stage = NoStage
    /\ html_chunks = <<>>
    /\ raised = {}
    /\ out_html = <<>>
    /\ meeting_html \in MeetingPages
    /\ meeting_page = meeting_html
    /\ meeting_agenda_ul = <<>>
    /\ agenda_div = <<>>
    /\ other_nbs_div = <<>>

NextAgenda == AgendaDiv \/ OtherNotebooks

SpecAgenda == InitAgenda /\ [][NextAgenda]_vars

\* ------------------------------------------------------------------
\* Properties

Is2xx(status_code) == status_code \in 200..299

\* Number of pages main is through with.
Completed == IF pc \in {"for", "done"} \/ idx = 0 THEN idx ELSE idx - 1

\* The outcomes the fragment list shows: one for each diagnostic fragment
\* and one for each first fragment of a page's selection.
RECURSIVE Outcomes(_)
Outcomes(chunks) ==
    IF Len(chunks) = 0 THEN <<>>
    ELSE LET c == Head(chunks)
         IN  IF c.kind = "FAILED PROCESSING"
             THEN <<[page |-> c.page, failed |-> TRUE]>> \o Outcomes(Tail(chunks))
             ELSE IF c.n = 1
             THEN <<[page |-> c.page, failed |-> FALSE]>> \o Outcomes(Tail(chunks))
             ELSE Outcomes(Tail(chunks))

\* C1: whatever subset of the pages raises in get_url, get_page_request,
\* parse_page or get_html_chunks, the loop goes through every page of the
\* registry in order and never aborts: the fragment list shows exactly one
\* outcome per page gone through, in registry order, FAILED PROCESSING for
\* exactly the pages that raised, and main ends only after the last page.
C1_HarvestVisitsAll ==
    /\ pc \in {"import", "import_error", "for", "get_url", "get_page_request",
               "parse_page", "get_html_chunks", "done", "get_url: blocked",
               "get_page_request: blocked"}
    /\ raised \subseteq 1..Completed
    /\ Outcomes(html_chunks) =
          [i \in 1..Completed |->
              [page |-> page_classes[i].page, failed |-> i \in raised]]
    /\ (pc = "done" => Completed = NPages)

C1_Witness ==
    /\ pc = "done"
    /\ 1 \notin raised /\ 2 \in raised /\ 3 \notin raised /\ NPages \in raised

\* What a page contributes to the fragment list, without the URL.
Shape(c) == [kind |-> c.kind, page |-> c.page, n |-> c.n, sel |-> c.sel]

Contribution(i) ==
    IF i \in raised
    THEN << Shape(FailedChunk(page_classes[i])) >>
    ELSE [n \in 1..Len(page_classes[i].chunks) |->
             [kind |-> "chunk", page |-> page_classes[i].page, n |-> n,
              sel |-> page_classes[i].chunks[n]]]

RECURSIVE Contributions(_)
Contributions(k) ==
    IF k = 0 THEN <<>> ELSE Contributions(k - 1) \o Contribution(k)

\* C2: the fragment list is the concatenation, page after page, of one
\* diagnostic fragment for a page that failed (at any stage, also part-way
\* through get_html_chunks) and of all the selected fragments in selector
\* order for a page that succeeded; nothing of a failed page's selection is
\* left in it and the pages are not interleaved.
C2_FragmentsPerPage ==
    [k \in 1..Len(html_chunks) |-> Shape(html_chunks[k])] = Contributions(Completed)

C2_Witness ==
    /\ pc = "for"
    /\ idx >= 2
    /\ idx - 1 \notin raised
    /\ stage.at = "get_html_chunks"
    /\ stage.sel > 3

\* get_url of a ReportsPage has returned or raised.
ReportsResolved ==
    /\ idx >= 1
    /\ Page.base = "ReportsPage"
    /\ pc = "get_page_request" \/ (pc = "for" /\ stage.at = "get_url")

ReportsReturned ==
    /\ idx >= 1
    /\ Page.base = "ReportsPage"
    /\ pc = "get_page_request"

Answered2xx(k) ==
    /\ ~probes[k].response.exc
    /\ Is2xx(probes[k].response.status_code)

\* The first candidate that answered 2xx is probe k.
First2xx(k) ==
    /\ Answered2xx(k)
    /\ \A j \in 1..(k - 1) : ~Answered2xx(j)

PastMidpoint(k) ==
    Secs(now) > Halfway(TSTART(probes[k].year, probes[k].quarter),
                        TSTOP(probes[k].year, probes[k].quarter))

\* C3: the primary URL a ReportsPage returns is one that was probed and
\* answered 2xx.
C3_PrimaryProbedOk ==
    ReportsReturned =>
        \E k \in 1..Len(probes) : probes[k].url = url /\ Answered2xx(k)

\* C4: when the first candidate quarter answering 2xx publishes a period of
\* which now is past the midpoint, that quarter's URL is returned as primary
\* and as current-period URL.
C4_PastMidpointBoth ==
    ReportsResolved =>
        \A k \in 1..Len(probes) :
            (First2xx(k) /\ probes[k].response.table = "period" /\ PastMidpoint(k))
            => /\ pc = "get_page_request"
               /\ url = ReportsUrl(Page.page, probes[k].year, probes[k].quarter)
               /\ current_url = url

\* C5: when now is not past the midpoint of the first candidate quarter Qn
\* answering 2xx, the primary URL is the quarter before (Q4 of the year
\* before for Q1) and the current-period URL is Qn; the primary URL is never
\* more than one year back.
C5_BeforeMidpointPrevious ==
    ReportsResolved =>
        \A k \in 1..Len(probes) :
            (First2xx(k) /\ probes[k].response.table = "period" /\ ~PastMidpoint(k))
            => /\ pc = "get_page_request"
               /\ current_url = ReportsUrl(Page.page, probes[k].year, probes[k].quarter)
               /\ url = IF probes[k].quarter = 1
                        THEN ReportsUrl(Page.page, probes[k].year - 1, 4)
                        ELSE ReportsUrl(Page.page, probes[k].year, probes[k].quarter - 1)
               /\ url \in { ReportsUrl(Page.page, y, q) :
                               y \in {now.year - 1, now.year}, q \in 1..4 }

\* The calendar quarter that contains t.
CurrentQuarter(t) == ((t.month - 1) \div 3) + 1

\* The URLs of the quarters up to the calendar quarter of now.
UpToCurrentQuarter ==
    { ReportsUrl(Page.page, y, q) : y \in {now.year - 1}, q \in 1..4 }
    \cup { ReportsUrl(Page.page, now.year, q) : q \in 1..CurrentQuarter(now) }

\* C6 as stated: probing starts with the calendar quarter that contains now
\* and goes strictly backward; no later quarter is probed or returned.
C6_FromCurrentQuarter ==
    (idx >= 1 /\ Page.base = "ReportsPage") =>
        /\ \A k \in 1..Len(probes) :
              /\ probes[k].year = now.year
              /\ probes[k].quarter = CurrentQuarter(now) - (k - 1)
        /\ (pc = "get_page_request" =>
              url \in UpToCurrentQuarter /\ current_url \in UpToCurrentQuarter)

\* C6, amended: probing goes through the quarters of the calendar year of
\* now in the fixed order Q4, Q3, Q2, Q1, whatever the current quarter is;
\* the current-period URL returned is the quarter probed last and the
\* primary URL is that quarter or the one before it.
C6_FromQ4Backward ==
    (idx >= 1 /\ Page.base = "ReportsPage") =>
        /\ \A k \in 1..Len(probes) :
              /\ probes[k].year = now.year
              /\ probes[k].quarter = 4 - (k - 1)
              /\ probes[k].url = ReportsUrl(Page.page, now.year, 4 - (k - 1))
        /\ (pc = "get_page_request" =>
              /\ Len(probes) >= 1
              /\ current_url = probes[Len(probes)].url
              /\ url \in { current_url,
                           IF Len(probes) = 4
                           THEN ReportsUrl(Page.page, now.year - 1, 4)
                           ELSE ReportsUrl(Page.page, now.year, 4 - Len(probes)) })

\* A quarter later than the calendar quarter of now was probed and returned.
C6_Witness ==
    /\ ReportsReturned
    /\ CurrentQuarter(now) = 1
    /\ Len(probes) = 1
    /\ current_url = ReportsUrl(Page.page, now.year, 4)
    /\ url = ReportsUrl(Page.page, now.year, 3)

\* C7: at most four probes, none after the first candidate that answered
\* 2xx, and an error instead of a URL when all four answered non-2xx.
C7_ProbesBounded ==
    (idx >= 1 /\ Page.base = "ReportsPage") =>
        /\ Len(probes) <= 4
        /\ \A k \in 1..(Len(probes) - 1) : ~Answered2xx(k)
        /\ (/\ Len(probes) = 4
            /\ \A k \in 1..4 : ~probes[k].response.exc /\ ~Answered2xx(k))
           => (pc = "for" /\ stage.at = "get_url" /\ idx \in raised /\ url = <<>>)

\* C10: success is decided by the 2xx class: get_page_request fails exactly
\* when the status is not 2xx, and the quarterly probe moves on to the next
\* candidate exactly when the status is not 2xx.
C10_SuccessIs2xx ==
    /\ (idx >= 1 /\ page_request # NoResponse /\ ~page_request.exc) =>
          (stage.at = "get_page_request" <=> ~Is2xx(page_request.status_code))
    /\ (idx >= 1 /\ Page.base = "ReportsPage") =>
          \A k \in 1..Len(probes) :
              ~probes[k].response.exc =>
                  (qi > k <=> ~Is2xx(probes[k].response.status_code))

\* The month before the one of t.
PrecedingMonth(t) ==
    IF t.month = 1 THEN [year |-> t.year - 1, month |-> 12]
    ELSE [year |-> t.year, month |-> t.month - 1]

TwoDigits(m) == << DigitChar[(m \div 10) + 1], DigitChar[(m % 10) + 1] >>

\* C8: for every calendar date, PerigeePage.get_url names the year and month
\* of now when the day of the month is past 15 and the month before it
\* otherwise (December of the year before in January), the month in two
\* digits.
C8_PerigeeMonth ==
    (pc = "get_page_request" /\ Page.base = "PerigeePage") =>
        LET ym == IF now.day > 15 THEN [year |-> now.year, month |-> now.month]
                  ELSE PrecedingMonth(now)
        IN  url = <<URL_ASPECT, "/", "perigee_health_plots", "/SUMMARY_DATA/">>
                    \o Str(ym.year) \o <<"-M">> \o TwoDigits(ym.month) \o <<"/">>

C8_Witness ==
    /\ pc = "get_page_request"
    /\ Page.base = "PerigeePage"
    /\ now = Date(2025, 1, 15)
    /\ url = <<URL_ASPECT, "/", "perigee_health_plots", "/SUMMARY_DATA/",
               "2", "0", "2", "4", "-M", "1", "2", "/">>

\* C9 as stated: GenericPage and PerigeePage return a current-period URL
\* equal to the primary URL.
C9_CurrentEqualsPrimary ==
    (pc = "get_page_request" /\ Page.base \in {"GenericPage", "PerigeePage"}) =>
        current_url = url

\* C9, amended: GenericPage and PerigeePage return the empty string as
\* current-period URL, next to a primary URL that is not empty.
C9_CurrentUrlEmpty ==
    (pc = "get_page_request" /\ Page.base \in {"GenericPage", "PerigeePage"}) =>
        /\ current_url = <<>>
        /\ url # <<>>
        /\ url[Len(url)] = "/"

C9_Witness ==
    /\ pc = "get_page_request"
    /\ Page.cls = "CelmonPage"
    /\ url = <<URL_ASPECT, "/", "celmon", "/">>
    /\ current_url = <<>>

\* C14: without the periscope_drift_page entry in ~/.netrc the run ends
\* when the module is imported: main is never entered, no page is resolved,
\* no request is issued, nothing is written and no failure fragment is made.
C14_MissingCredentialAborts ==
    ~netrc =>
        /\ pc \in {"import", "import_error"}
        /\ idx = 0
        /\ url = <<>>
        /\ probes = <<>>
        /\ page_request = NoResponse
        /\ html_chunks = <<>>
        /\ raised = {}
        /\ out_html = <<>>

C14_Witness == ~netrc /\ pc = "import_error"

\* The state of page i of the registry in the run.
PageState(i) ==
    IF idx = 0 \/ i > idx THEN "Pending"
    ELSE IF i < idx THEN (IF i \in raised THEN "Failed" ELSE "Succeeded")
    ELSE IF pc \in {"get_url", "get_url: blocked"} THEN "Resolving"
    ELSE IF pc \in {"get_page_request", "get_page_request: blocked"} THEN "Fetching"
    ELSE IF pc = "parse_page" THEN "Extracting"
    ELSE IF pc = "get_html_chunks" THEN "Selecting"
    ELSE IF i \in raised THEN "Failed" ELSE "Succeeded"

Rank(st) ==
    CASE st = "Pending" -> 0
      [] st = "Resolving" -> 1
      [] st = "Fetching" -> 2
      [] st = "Extracting" -> 3
      [] st = "Selecting" -> 4
      [] OTHER -> 5

\* C15: every step leaves each page where it is, moves it to the next state
\* of Pending, Resolving, Fetching, Extracting, Selecting, Succeeded or
\* makes it Failed; Succeeded and Failed are never left; and a response to
\* the request of the primary URL arrives only for a page that is Fetching
\* and takes it out of Fetching, so that no page is resolved or fetched twice.
C15_ForwardOnly ==
    [][\A i \in 1..NPages :
          /\ Rank(PageState(i)') >= Rank(PageState(i))
          /\ (PageState(i) \in {"Succeeded", "Failed"} => PageState(i)' = PageState(i))
          /\ (PageState(i)' # PageState(i) =>
                \/ PageState(i)' = "Failed"
                \/ Rank(PageState(i)') = Rank(PageState(i)) + 1)
          /\ ((i = idx /\ page_request' # page_request /\ page_request' # NoResponse) =>
                /\ PageState(i) = "Fetching"
                /\ PageState(i)' \in {"Extracting", "Failed"})
          /\ ((i = idx /\ Len(probes') > Len(probes)) => PageState(i) = "Resolving")
      ]_vars

\* A page failed and the page after it went through every state.
C15_Witness ==
    /\ pc = "for"
    /\ idx = 3
    /\ PageState(1) = "Succeeded"
    /\ PageState(2) = "Failed"
    /\ PageState(3) = "Succeeded"

\* C16: no network call waits without bound, so that a run that was started
\* and can take no further step has gone through every page and written
\* the output document.
C16_NeverWaitsForever ==
    /\ pc \notin {"get_url: blocked", "get_page_request: blocked"}
    /\ (netrc /\ ~ENABLED Next) => (pc = "done" /\ out_html = html_chunks)

\* parse_page returned for the page.
Parsed == pc = "get_html_chunks"

\* The URL an image fragment carries in its src.
FragmentSrc(frag) == SubSeq(frag, 2, Len(frag) - 1)

\* A URL that starts with the base URL or names its own site.
IsAbsolute(v, base) == StartsWith(v, base) \/ StartsWith(v, <<"https://">>)

\* The elements nested in the div elements of a document.
NestedInDivs(d) == UNION {{d[i].kids[j] : j \in DOMAIN d[i].kids} :
                             i \in {k \in DOMAIN d : d[k].tag = "div"}}

\* C11: after parse_page of a page other than celmon every anchor href,
\* every image fragment, every src in the serialised tables and every img
\* or a nested in an exposed div starts with the base URL or is absolute.
C11_NoRelativeUrlExposed ==
    (Parsed /\ Page.page # "celmon") =>
        /\ \A i \in DOMAIN find_all(soup, "a") :
              IsAbsolute(find_all(soup, "a")[i].val, url)
        /\ \A src \in DOMAIN images : IsAbsolute(FragmentSrc(images[src]), url)
        /\ \A t \in DOMAIN tables : \A i \in DOMAIN tables[t] :
              tables[t][i] = "src=\"" =>
                  IsAbsolute(SubSeq(tables[t], i + 1, Len(tables[t])), url)
        /\ \A e \in NestedInDivs(soup) : e.has => IsAbsolute(e.val, url)

\* C12: the keys of the mapping get_images returns are exactly the src
\* values of the document that end in ".png" or ".gif".
C12_ImageKeysPngGif ==
    Parsed =>
        DOMAIN images =
            {find_all(doc, "img")[i].val : i \in
                {j \in DOMAIN find_all(doc, "img") :
                    \/ EndsWith(find_all(doc, "img")[j].val, <<".", "p", "n", "g">>)
                    \/ EndsWith(find_all(doc, "img")[j].val, <<".", "g", "i", "f">>)}}

\* C13 as stated: for celmon no anchor href and no image src is prefixed
\* with the base URL, for every other page each is prefixed exactly once.
C13_NothingPrefixedForCelmon ==
    Parsed =>
        /\ \A i \in DOMAIN find_all(doc, "a") :
              find_all(soup, "a")[i].val =
                  IF Page.page = "celmon" THEN find_all(doc, "a")[i].val
                  ELSE url \o find_all(doc, "a")[i].val
        /\ \A src \in DOMAIN images :
              FragmentSrc(images[src]) =
                  IF Page.page = "celmon" THEN src ELSE url \o src

\* C13 amended: the rewriting of anchors is skipped for celmon and only for
\* it (each href of any other page is prefixed exactly once), while the
\* image fragments of every page, celmon too, carry the base URL followed by
\* the original src, and the img elements of the soup are left as they are.
C13_OnlyAnchorsSkippedForCelmon ==
    Parsed =>
        /\ Len(find_all(soup, "a")) = Len(find_all(doc, "a"))
        /\ \A i \in DOMAIN find_all(doc, "a") :
              find_all(soup, "a")[i].val =
                  IF Page.page = "celmon" THEN find_all(doc, "a")[i].val
                  ELSE url \o find_all(doc, "a")[i].val
        /\ \A src \in DOMAIN images : FragmentSrc(images[src]) = url \o src
        /\ find_all(soup, "img") = find_all(doc, "img")

\* celmon parsed with an anchor and an image in the document.
C13_Witness ==
    /\ Parsed
    /\ Page.page = "celmon"
    /\ \E i \in DOMAIN find_all(soup, "a") : find_all(soup, "a")[i].has
    /\ DOMAIN images # {}

\* The error detail of a failure fragment: what stands between the
\* opening of the pre element and its end.
ErrorDetail(frag) == SubSeq(frag, 4, Len(frag) - 1)

Entities ==
    { <<"&", "a", "m", "p", ";">>, <<"&", "l", "t", ";">>, <<"&", "g", "t", ";">>,
      <<"&", "q", "u", "o", "t", ";">>, <<"&", "#", "x", "2", "7", ";">> }

\* The character a browser shows for an entity.
EntityChar(e) ==
    CASE e = <<"&", "a", "m", "p", ";">> -> "&"
      [] e = <<"&", "l", "t", ";">> -> "<"
      [] e = <<"&", "g", "t", ";">> -> ">"
      [] e = <<"&", "q", "u", "o", "t", ";">> -> "\""
      [] OTHER -> "'"

\* The text a browser shows for escaped text.
RECURSIVE Shown(_)
Shown(text) ==
    IF text = <<>> THEN <<>>
    ELSE IF \E e \in Entities : StartsWith(text, e)
    THEN LET e == CHOOSE x \in Entities : StartsWith(text, x)
         IN  <<EntityChar(e)>> \o Shown(SubSeq(text, Len(e) + 1, Len(text)))
    ELSE <<Head(text)>> \o Shown(Tail(text))

\* C17: the error detail of a failure fragment holds no "<" and no ">",
\* every "&" in it begins an entity, and it shows as the traceback itself.
C17_DetailEscaped ==
    fragment # <<>> =>
        /\ \A i \in DOMAIN ErrorDetail(fragment) :
              /\ ErrorDetail(fragment)[i] \notin {"<", ">"}
              /\ ErrorDetail(fragment)[i] = "&" =>
                    \E e \in Entities :
                        StartsWith(SubSeq(ErrorDetail(fragment), i,
                                          Len(ErrorDetail(fragment))), e)
        /\ Shown(ErrorDetail(fragment)) = tb

\* A fragment for a traceback that quotes markup with an entity in it.
C17_Witness ==
    /\ fragment # <<>>
    /\ pc = "for"
    /\ idx \in raised
    /\ {"<", ">", "&"} \subseteq {tb[i] : i \in DOMAIN tb}

\* C18: the registry never holds a class whose page is None and never two
\* entries with the same page key, and once the module is loaded it begins
\* with the concrete page classes in definition order, also after MyPage
\* was defined.
C18_RegistryUniqueKeys ==
    /\ \A i \in DOMAIN registry : registry[i].page # None
    /\ \A i, j \in DOMAIN registry : registry[i].page = registry[j].page => i = j
    /\ defined >= Len(ClassStatements) =>
          SubSeq(registry, 1, Len(page_classes)) = page_classes

\* C19: run with --page1 and --page2 and neither --rev1 nor --rev2, the
\* requests carry no rev parameter and the texts fetched are the latest
\* revisions of the two pages.
C19_DefaultsCompareLatest ==
    (argv.page1 # Absent /\ argv.page2 # Absent
        /\ argv.rev1 = Absent /\ argv.rev2 = Absent) =>
        /\ \A i \in DOMAIN requests : requests[i].params = << <<"raw=on">> >>
        /\ Len(text_tw) >= 1 => text_tw[1].rev = wiki[argv.page1]
        /\ Len(text_tw) >= 2 => text_tw[2].rev = wiki[argv.page2]

\* The gists twiki_make_diff found in the account are as they were.
OthersKept == \A n \in DOMAIN gists : gist_url = Strip(GistCreateOutput(n)) \/ gists[n] = OtherGist

\* C20: a gist is created only when both pages are fetched and converted,
\* with the markdown of page1 at rev1 under the file name of page1; the
\* edit adds to the gist of the URL that create printed, under the same
\* file name, the markdown of page2 at rev2; a run that fails in a fetch
\* or a conversion leaves the gists as they were.
C20_PublishOrder ==
    /\ OthersKept
    /\ gist_url = <<>> => gists \in {<<>>, <<OtherGist>>}
    /\ pc \in {"failed: page1.split", "failed: get_twiki_page_markdown", "failed: pandoc"}
          => gist_url = <<>>
    /\ gist_url # <<>> =>
          /\ Len(requests) = 2 /\ Len(text_tw) = 2 /\ Len(bytes_md) = 2
          /\ requests = <<TwikiRequest(page1, rev1), TwikiRequest(page2, rev2)>>
          /\ gist_url = Strip(GistCreateOutput(Len(gists)))
          /\ gists[Len(gists)][1] =
                [filename |-> filename,
                 content |-> Pandoc(TwikiText(wiki, TwikiRequest(page1, rev1)))]
          /\ Len(gists[Len(gists)]) = IF pc = "done" THEN 2 ELSE 1
          /\ pc = "done" =>
                gists[Len(gists)][2] =
                    [filename |-> filename,
                     content |-> Pandoc(TwikiText(wiki, TwikiRequest(page2, rev2)))]

\* A finished run for two revisions of a page, in an account that had a gist.
C20_Witness ==
    /\ pc = "done"
    /\ Len(gists) = 2
    /\ Len(gists[2]) = 2
    /\ gists[2][1].content # gists[2][2].content

\* C27: when the first candidate that answers 2xx serves a page whose
\* period table cannot be read, get_url raises and the page fails: that
\* probe is the last one of the page and no older quarter is tried.
C27_UnreadableTableFails ==
    (idx >= 1 /\ Page.base = "ReportsPage") =>
        \A k \in 1..Len(probes) :
            (First2xx(k) /\ probes[k].response.table = "unreadable") =>
                /\ Len(probes) = k
                /\ pc = "for"
                /\ stage.at = "get_url"
                /\ idx \in raised
                /\ url = <<>>

\* The quarter before the one of probe k.
PreviousQuarterUrl(k) ==
    IF probes[k].quarter = 1
    THEN ReportsUrl(Page.page, probes[k].year - 1, 4)
    ELSE ReportsUrl(Page.page, probes[k].year, probes[k].quarter - 1)

\* C28: for acq_stat_reports the fragment of id_acq_stars.png is built from
\* the current-period URL and every other image fragment and every table
\* from the primary URL; the two URLs differ exactly when get_url returned
\* the previous quarter as primary; and get_page_request asks for the
\* primary URL only.
C28_CurrentQuarterImage ==
    (idx >= 1 /\ Page.page = "acq_stat_reports") =>
        /\ \A i \in DOMAIN html_chunks :
              (html_chunks[i].page = Page.page /\ html_chunks[i].kind = "chunk") =>
                  /\ html_chunks[i].sel.attr = "current_quarter_acq_images"
                        => html_chunks[i].src = current_url
                  /\ html_chunks[i].sel.attr \in {"images", "tables"}
                        => html_chunks[i].src = url
        /\ url # <<>> =>
              /\ current_url = probes[Len(probes)].url
              /\ url # current_url <=> url = PreviousQuarterUrl(Len(probes))
              /\ url # current_url <=> ~PastMidpoint(Len(probes))
        /\ page_request # NoResponse => page_request.url = url

\* acq_stat_reports harvested from the previous quarter.
C28_Witness ==
    /\ idx >= 1
    /\ Page.page = "acq_stat_reports"
    /\ pc = "for"
    /\ idx \notin raised
    /\ url # current_url
    /\ page_request.url = url
    /\ \E i \in DOMAIN html_chunks : html_chunks[i].src = current_url

\* C29: every src written into the serialised markup of a table is the
\* src of the fragment get_images builds for the same image: the base URL
\* followed directly by the original src.
C29_TablesAgreeWithImages ==
    Parsed =>
        \A t \in DOMAIN tables : \A i \in DOMAIN tables[t] :
            tables[t][i] = "src=\"" =>
                \E X \in Srcs :
                    StartsWith(SubSeq(tables[t], i + 1, Len(tables[t])),
                               FragmentSrc(ImgFragment(url, X)) \o <<"\"/>">>)

\* The meeting divs that main extracted from the index in this run.
RemovedDivs == {before[i] : i \in {j \in DOMAIN before : j <= 2}}

\* C21: when a run completes, every meeting div that it extracted from the
\* index is in the index again.
C21_RemovedComeBack ==
    pc = "done" => \A m \in RemovedDivs : FindDiv(index_file, m)

\* C22: when a run completes, every link of the wiki's list that lies
\* strictly between start and stop has exactly one div in the index.
C22_OneDivPerLink ==
    pc = "done" =>
        \A k \in DOMAIN meeting_list :
            InRange(opt, meeting_list[k]) =>
                Cardinality({i \in DOMAIN index_file : index_file[i] = meeting_list[k]}) = 1

C24_Idempotent ==
    (pc = "done" /\ prev # <<>> /\ prev.opt = opt) => index_file = prev.index

\* The headers of the fetched page that a call of get_list_after looks at.
Matching(name, label) ==
    {i \in DOMAIN meeting_html :
        /\ meeting_html[i].tag = name
        /\ re_search(label, meeting_html[i].text)}

\* The first list after the first of these headers, 0 when there is none.
ListAfterFirst(name, label) ==
    LET first == CHOOSE i \in Matching(name, label) : \A j \in Matching(name, label) : i <= j
        lists == {j \in DOMAIN meeting_html : meeting_html[j].tag = "ul" /\ j > first}
    IN  IF Matching(name, label) = {} \/ lists = {} THEN 0
        ELSE CHOOSE j \in lists : \A k \in lists : j <= k

\* The labels and headers by priority: "Current Topics", "Topics",
\* "Agenda", any header; h2 before h3 for each.
Priority ==
    << [label |-> <<"Current", "Topics">>, header |-> "h2"],
       [label |-> <<"Current", "Topics">>, header |-> "h3"],
       [label |-> <<"Topics">>, header |-> "h2"],
       [label |-> <<"Topics">>, header |-> "h3"],
       [label |-> <<"Agenda">>, header |-> "h2"],
       [label |-> <<"Agenda">>, header |-> "h3"],
       [label |-> <<>>, header |-> "h2"],
       [label |-> <<>>, header |-> "h3"] >>

\* C25, as stated: the agenda is the list that follows the first header
\* matching the highest-priority label that the page has a header for, and
\* "No agenda" is shown only when neither the first h2 nor the first h3 is
\* followed by a list.
C25_HighestPriorityLabel ==
    pc # "get_meeting_agenda_ul" =>
        LET present == {k \in DOMAIN Priority :
                            Matching(Priority[k].header, Priority[k].label) # {}}
            best == CHOOSE k \in present : \A m \in present : k <= m
        IN  /\ (present # {} /\ meeting_agenda_ul # 0) =>
                  meeting_agenda_ul = ListAfterFirst(Priority[best].header, Priority[best].label)
            /\ meeting_agenda_ul = 0 =>
                  /\ ListAfterFirst("h2", <<>>) = 0
                  /\ ListAfterFirst("h3", <<>>) = 0
                  /\ agenda_div.agenda = <<"No agenda">>

\* C25, amended: a label and header whose first matching header is followed
\* by no list is passed over; the agenda is the list after the first
\* matching header of the highest-priority label and header that has one.
\* "No agenda" is shown exactly when neither the first h2 nor the first h3
\* is followed by a list.
C25_FirstWithList ==
    pc # "get_meeting_agenda_ul" =>
        LET listed == {k \in DOMAIN Priority :
                            ListAfterFirst(Priority[k].header, Priority[k].label) # 0}
            best == CHOOSE k \in listed : \A m \in listed : k <= m
        IN  /\ listed # {} =>
                  /\ meeting_agenda_ul = ListAfterFirst(Priority[best].header, Priority[best].label)
                  /\ agenda_div.agenda = <<meeting_html[meeting_agenda_ul]>>
            /\ meeting_agenda_ul = 0 <=>
                  /\ ListAfterFirst("h2", <<>>) = 0
                  /\ ListAfterFirst("h3", <<>>) = 0
            /\ meeting_agenda_ul = 0 => agenda_div.agenda = <<"No agenda">>

\* An h3 "Current Topics" with its list after an h2 "Agenda" with its own:
\* the list of the h3 is the agenda.
C25_Witness ==
    /\ pc # "get_meeting_agenda_ul"
    /\ Len(meeting_html) = 4
    /\ meeting_html[1].tag = "h2" /\ meeting_html[1].text = <<"Agenda">>
    /\ meeting_html[2].tag = "ul"
    /\ meeting_html[3].tag = "h3" /\ meeting_html[3].text = <<"Current", "Topics">>
    /\ meeting_html[4].tag = "ul"
    /\ meeting_agenda_ul = 4

\* The .ipynb hrefs of the links of a page or of a div.
NotebookSet(hrefs) == {hrefs[i] : i \in {j \in DOMAIN hrefs : IsNotebook(hrefs[j])}}

\* C26: the links returned are those of exactly the .ipynb hrefs that occur
\* in the meeting page and not in the agenda div, each href once, and None
\* is returned exactly when there is no such href.
C26_OtherNotebooks ==
    pc = "for tag in agenda_div" =>
        LET others == NotebookSet(Anchors(meeting_html)) \ NotebookSet(agenda_div.hrefs)
        IN  /\ {other_nbs_div.hrefs[i] : i \in DOMAIN other_nbs_div.hrefs} = others
            /\ Len(other_nbs_div.hrefs) = Cardinality(others)
            /\ other_nbs_div.div <=> others # {}

\* A notebook linked from the agenda and again outside of it, and another
\* linked outside of it only: the second alone is returned.
C26_Witness ==
    /\ pc = "for tag in agenda_div"
    /\ <<"a", ".", "ipynb">> \in NotebookSet(agenda_div.hrefs)
    /\ SelectSeq(Anchors(meeting_html), IsNotebook)
          = << <<"a", ".", "ipynb">>, <<"a", ".", "ipynb">>, <<"b", ".", "ipynb">> >>
    /\ SelectSeq(Anchors(meeting_page), IsNotebook) = << <<"a", ".", "ipynb">> >>
    /\ other_nbs_div = [div |-> TRUE, hrefs |-> << <<"b", ".", "ipynb">> >>]

====
